---- MODULE Spec2Model ----
(***************************************************************************)
(* QARTOD quality control of TRDI ADCP ensembles.                          *)
(*   adcp_qartod_qaqc/tests.py : the battery of classification tests       *)
(*   adcp_qartod_qaqc/trdi.py  : TRDIQAQC, a session over one ensemble     *)
(*   adcp_qartod_qaqc/trdiUH.py: TRDIQAQC, a session over a batch          *)
(* Numbers: distances are kept in hundredths of a metre, so that the       *)
(* float division by 100.0 and Python 2's integer division by 100 are      *)
(* both exact integers here.  The cosine of the beam angle is a fixed      *)
(* point value with CosScale digits.                                       *)
(***************************************************************************)
EXTENDS Integers, Sequences, FiniteSets, TLC

VARIABLES
    pc,                 \* position in TRDIQAQC.__init__, or "ready"/"library"
    data,               \* self.data, the decoded ensemble
    depth_arg,          \* the transducer_depth argument of __init__ (or None)
    transducer_depth,   \* self.transducer_depth
    u, v, w,            \* self.u, self.v, self.w
    current_speed,      \* self.current_speed
    current_direction,  \* self.current_direction (hundredths of a degree)
    bottom_bin,         \* local bottom_bin of __calc_bottom_stats
    scan_pos,           \* number of bin pairs the scan loop has consumed
    bottom_stats,       \* self.bottom_stats
    last_good_bin,      \* self.last_good_bin
    last_good_counter,  \* self.last_good_counter
    call,               \* the last accessor / test call and what it returned
    objects,            \* what the argument objects of a test call now hold
    repeat,             \* what the same call returned just before, if made
    ensemble_bottom_stats   \* self.ensemble_bottom_stats of the batch session

vars == <<pc, data, depth_arg, transducer_depth, u, v, w, current_speed,
          current_direction, bottom_bin, scan_pos, bottom_stats,
          last_good_bin, last_good_counter, call, objects, repeat,
          ensemble_bottom_stats>>

session == <<data, transducer_depth, u, v, w, current_speed,
             current_direction, bottom_stats, last_good_bin,
             last_good_counter>>

(***************************************************************************)
(* Bounds of the model.                                                    *)
(***************************************************************************)
MaxBins == 3

None == "None"

(***************************************************************************)
(* ADCP_FLAGS                                                              *)
(***************************************************************************)
ADCP_FLAGS == [good |-> 1, no_test |-> 2, suspect |-> 3, bad |-> 4,
               missing_data |-> 9]

(***************************************************************************)
(* Python built-ins                                                        *)
(***************************************************************************)
Abs(x) == IF x < 0 THEN -x ELSE x

Min(a, b) == IF a < b THEN a ELSE b

Max(a, b) == IF a > b THEN a ELSE b

\* int(num/den) of a float: truncation toward zero (den > 0)
PyInt(num, den) == IF num >= 0 THEN num \div den ELSE -((-num) \div den)

\* Python 2's a / b on two ints: floor division (b > 0)
PyIntDiv(a, b) == a \div b

\* seq[:stop] : the number of leading elements the slice keeps
PySliceLen(n, stop) ==
    IF stop >= 0 THEN Min(stop, n) ELSE Max(n + stop, 0)

\* seq[:stop]
PySlice(seq, stop) == SubSeq(seq, 1, PySliceLen(Len(seq), stop))

\* seq[1:]
PyTail(seq) == IF Len(seq) = 0 THEN <<>> ELSE Tail(seq)

\* zip(a, b) stops at the shorter argument
ZipLen(a, b) == Min(Len(a), Len(b))

\* the 0-based indices of the elements of seq[:stop]
SliceIndices(n, stop) == 0 .. (PySliceLen(n, stop) - 1)

(***************************************************************************)
(* adcp_qartod_qaqc/tests.py                                               *)
(***************************************************************************)
battery_flag_test(ensemble) == ADCP_FLAGS.no_test

checksum_test(ensemble) == ADCP_FLAGS.good

bit_test(bit_flag) ==
    IF bit_flag = "0" THEN ADCP_FLAGS.good ELSE ADCP_FLAGS.bad

\* pitch and roll in hundredths of a degree (the accessor divides by 100.0)
orientation_test(pitch, roll, max_pitch, max_roll) ==
    IF Abs(pitch) < 100 * max_pitch /\ Abs(roll) < 100 * max_roll
    THEN ADCP_FLAGS.good ELSE ADCP_FLAGS.bad

sound_speed_test(sound_speed_velocity, sound_speed_min, sound_speed_max) ==
    IF sound_speed_velocity >= sound_speed_min
       /\ sound_speed_velocity <= sound_speed_max
    THEN ADCP_FLAGS.good ELSE ADCP_FLAGS.bad

noise_floor_test(ensemble) == ADCP_FLAGS.no_test

signal_strength_flag(ensemble) == ADCP_FLAGS.no_test

signal_to_noise_test(ensemble) == ADCP_FLAGS.no_test

stuck_sensor_test(ensemble) == ADCP_FLAGS.no_test

\* correlation_magnitude_test comparing with > instead of >=
CorrelationBinFlagStrict(bin, good_tolerance, suspect_tolerance) ==
    LET good == Cardinality({k \in 1..Len(bin) : bin[k] > good_tolerance})
        suspect == Cardinality({k \in 1..Len(bin) :
                                  /\ ~(bin[k] > good_tolerance)
                                  /\ bin[k] > suspect_tolerance})
    IN  IF good = Len(bin) THEN ADCP_FLAGS.good
        ELSE IF good + suspect >= 3 THEN ADCP_FLAGS.suspect
        ELSE ADCP_FLAGS.bad

\* the flag of one bin of correlation_magnitude_test
CorrelationBinFlag(bin, good_tolerance, suspect_tolerance) ==
    LET good == Cardinality({k \in 1..Len(bin) : bin[k] >= good_tolerance})
        suspect == Cardinality({k \in 1..Len(bin) :
                                  /\ ~(bin[k] >= good_tolerance)
                                  /\ bin[k] >= suspect_tolerance})
    IN  IF good = Len(bin) THEN ADCP_FLAGS.good
        ELSE IF good + suspect >= 3 THEN ADCP_FLAGS.suspect
        ELSE ADCP_FLAGS.bad

correlation_magnitude_test(ensemble_correlation, good_tolerance, suspect_tolerance) ==
    [i \in 1..Len(ensemble_correlation) |->
        CorrelationBinFlag(ensemble_correlation[i], good_tolerance,
                           suspect_tolerance)]

\* percent_good_test with the good boundary exclusive
PercentGoodFlagExclusive(one_bad_percent, all_good_percent, percent_good, percent_bad) ==
    LET pg_sum == one_bad_percent + all_good_percent
    IN  IF pg_sum > percent_good THEN ADCP_FLAGS.good
        ELSE IF pg_sum <= percent_bad THEN ADCP_FLAGS.bad
        ELSE ADCP_FLAGS.suspect

\* the flag of one pair of percent_good_test
PercentGoodFlag(one_bad_percent, all_good_percent, percent_good, percent_bad) ==
    LET pg_sum == one_bad_percent + all_good_percent
    IN  IF pg_sum >= percent_good THEN ADCP_FLAGS.good
        ELSE IF pg_sum <= percent_bad THEN ADCP_FLAGS.bad
        ELSE ADCP_FLAGS.suspect

percent_good_test(one_bad_percent_data, all_good_percent_data, percent_good, percent_bad) ==
    [i \in 1..ZipLen(one_bad_percent_data, all_good_percent_data) |->
        PercentGoodFlag(one_bad_percent_data[i], all_good_percent_data[i],
                        percent_good, percent_bad)]

current_speed_test(speeds, max_speed) ==
    [i \in 1..Len(speeds) |->
        IF speeds[i] <= max_speed THEN ADCP_FLAGS.good ELSE ADCP_FLAGS.bad]

\* current_direction_test adding two turns to a negative direction
current_direction_test_two_turns(directions) ==
    [i \in 1..Len(directions) |->
        LET direction == IF directions[i] < 0 THEN directions[i] + 72000
                         ELSE directions[i]
        IN  IF direction <= 36000 THEN ADCP_FLAGS.good ELSE ADCP_FLAGS.bad]

\* current_direction_test flagging 360 itself as bad
current_direction_test_exclusive(directions) ==
    [i \in 1..Len(directions) |->
        LET direction == IF directions[i] < 0 THEN directions[i] + 36000
                         ELSE directions[i]
        IN  IF direction < 36000 THEN ADCP_FLAGS.good ELSE ADCP_FLAGS.bad]

\* directions in hundredths of a degree
current_direction_test(directions) ==
    [i \in 1..Len(directions) |->
        LET direction == IF directions[i] < 0 THEN directions[i] + 36000
                         ELSE directions[i]
        IN  IF direction <= 36000 THEN ADCP_FLAGS.good ELSE ADCP_FLAGS.bad]

horizontal_velocity_test(us, vs, max_u_velocity, max_v_velocity) ==
    [i \in 1..ZipLen(us, vs) |->
        IF Abs(us[i]) > max_u_velocity \/ Abs(vs[i]) > max_v_velocity
        THEN ADCP_FLAGS.bad ELSE ADCP_FLAGS.good]

\* vertical_velocity_test with the limit exclusive
vertical_velocity_test_exclusive(ws, max_w_velocity) ==
    [i \in 1..Len(ws) |->
        IF Abs(ws[i]) < max_w_velocity THEN ADCP_FLAGS.good
        ELSE ADCP_FLAGS.bad]

vertical_velocity_test(ws, max_w_velocity) ==
    [i \in 1..Len(ws) |->
        IF Abs(ws[i]) <= max_w_velocity THEN ADCP_FLAGS.good
        ELSE ADCP_FLAGS.bad]

\* error_velocity_test with both limits inclusive
error_velocity_test_inclusive(error_velocities, suspect_error_velocity, bad_error_velocity) ==
    [i \in 1..Len(error_velocities) |->
        IF 10 * error_velocities[i] <= suspect_error_velocity
        THEN ADCP_FLAGS.good
        ELSE IF 10 * error_velocities[i] <= bad_error_velocity
        THEN ADCP_FLAGS.suspect
        ELSE ADCP_FLAGS.bad]

\* the two thresholds are given in tenths (2.6 is 26, 5.2 is 52)
error_velocity_test(error_velocities, suspect_error_velocity, bad_error_velocity) ==
    [i \in 1..Len(error_velocities) |->
        IF 10 * error_velocities[i] < suspect_error_velocity
        THEN ADCP_FLAGS.good
        ELSE IF 10 * error_velocities[i] < bad_error_velocity
        THEN ADCP_FLAGS.suspect
        ELSE ADCP_FLAGS.bad]

\* the pair flag with the difference taken as curr - prev
EchoPairFlagReversed(bin_prev, bin_curr, tolerance) ==
    LET bin_flag_count ==
            Cardinality({k \in 1..ZipLen(bin_prev, bin_curr) :
                            bin_curr[k] - bin_prev[k] < tolerance})
    IN  IF bin_flag_count = 0 THEN ADCP_FLAGS.good
        ELSE IF bin_flag_count = 1 THEN ADCP_FLAGS.suspect
        ELSE ADCP_FLAGS.bad

\* the flag echo_intensity_test appends for one pair of adjacent bins
EchoPairFlag(bin_prev, bin_curr, tolerance) ==
    LET bin_flag_count ==
            Cardinality({k \in 1..ZipLen(bin_prev, bin_curr) :
                            bin_prev[k] - bin_curr[k] < tolerance})
    IN  IF bin_flag_count = 0 THEN ADCP_FLAGS.good
        ELSE IF bin_flag_count = 1 THEN ADCP_FLAGS.suspect
        ELSE ADCP_FLAGS.bad

echo_intensity_test(echo_intensities, tolerance) ==
    <<1>> \o [i \in 1..ZipLen(echo_intensities, PyTail(echo_intensities)) |->
                EchoPairFlag(echo_intensities[i], echo_intensities[i + 1],
                             tolerance)]

range_drop_off_test(echo_intensities, drop_off_limit) ==
    [i \in 1..Len(echo_intensities) |->
        LET bin == echo_intensities[i]
            bin_flag_count ==
                Cardinality({k \in 1..Len(bin) : bin[k] < drop_off_limit})
        IN  IF bin_flag_count >= 2 THEN ADCP_FLAGS.bad ELSE ADCP_FLAGS.good]

current_speed_gradient_test(speeds, tolerance) ==
    <<1>> \o [i \in 1..ZipLen(speeds, PyTail(speeds)) |->
                IF Abs(speeds[i + 1] - speeds[i]) <= tolerance
                THEN ADCP_FLAGS.good ELSE ADCP_FLAGS.bad]

(***************************************************************************)
(* The ensembles and arguments the model draws its inputs from.            *)
(* A bin is one depth cell: four beams of echo intensity and correlation,  *)
(* the velocity row <<u, v, w, error velocity>> and the four percent-good  *)
(* counters.  The velocities are chosen so that abs(u + 1j*v) is a whole   *)
(* number.                                                                 *)
(***************************************************************************)
BinFlat ==
    [echo_intensity |-> <<100, 100, 100, 100>>,
     velocity       |-> <<3, 4, 0, 0>>,
     correlation    |-> <<120, 120, 120, 120>>,
     percent_good   |-> <<0, 0, 10, 11>>]

BinOneBeam ==
    [echo_intensity |-> <<100, 100, 100, 131>>,
     velocity       |-> <<0, -200, 16, 3>>,
     correlation    |-> <<120, 120, 70, 70>>,
     percent_good   |-> <<0, 0, 9, 10>>]

BinEdge ==
    [echo_intensity |-> <<130, 130, 100, 100>>,
     velocity       |-> <<-90, -120, -15, 5>>,
     correlation    |-> <<10, 10, 10, 10>>,
     percent_good   |-> <<50, 0, 8, 9>>]

BinJump ==
    [echo_intensity |-> <<140, 140, 100, 100>>,
     velocity       |-> <<120, 160, 15, 6>>,
     correlation    |-> <<120, 70, 70, 10>>,
     percent_good   |-> <<0, 30, 21, 0>>]

BinDrop ==
    [echo_intensity |-> <<50, 50, 100, 100>>,
     velocity       |-> <<0, 0, 0, -3>>,
     correlation    |-> <<115, 115, 115, 64>>,
     percent_good   |-> <<0, 0, 0, 18>>]

BinSet == {BinFlat, BinOneBeam, BinEdge, BinJump, BinDrop}

\* every sequence of at most n elements of S
RECURSIVE SeqsUpTo(_, _)
SeqsUpTo(S, n) ==
    IF n = 0 THEN {<<>>}
    ELSE LET shorter == SeqsUpTo(S, n - 1)
         IN  shorter \cup {Append(s, b) : s \in {t \in shorter : Len(t) = n - 1},
                                          b \in S}

\* n bins, the first k flat and the others past a jump on two beams
FlatThenJump(n, k) == [i \in 1..n |-> IF i <= k THEN BinFlat ELSE BinJump]

BinSequences == SeqsUpTo(BinSet, MaxBins) \cup {FlatThenJump(25, 20)}

\* a Python number: its value and its type ("int" or "float")
PyNum(val, kind) == [val |-> val, kind |-> kind]

\* an absent argument or attribute
NoneNum == [val |-> 0, kind |-> "None"]

Geometries ==
    [bin_1_distance : {50}, depth_cell_length : {100, 200},
     beam_angle : {20, 30}]

VariableLeader ==
    [depth_of_transducer |-> 30, pitch |-> 150, roll |-> -2100,
     speed_of_sound |-> 1500, bit_result |-> "0"]

\* the decoded ensemble made of a sequence of bins and a geometry
Ensemble(bins, geometry) ==
    [echo_intensity  |-> [i \in 1..Len(bins) |-> bins[i].echo_intensity],
     velocity        |-> [i \in 1..Len(bins) |-> bins[i].velocity],
     correlation     |-> [i \in 1..Len(bins) |-> bins[i].correlation],
     percent_good    |-> [i \in 1..Len(bins) |-> bins[i].percent_good],
     fixed_leader    |-> geometry,
     variable_leader |-> VariableLeader]

Ensembles == {Ensemble(bins, g) : bins \in BinSequences, g \in Geometries}

\* the transducer_depth argument: absent, an int or a float (centimetres)
DepthArgs ==
    {NoneNum, PyNum(-400, "int"), PyNum(0, "int"), PyNum(104, "int"),
     PyNum(104, "float"), PyNum(600, "int")}

NoCall == [name |-> "none", args |-> <<>>, window |-> {}, flags |-> <<>>,
           raised |-> None]

\* no argument objects are held outside of a direct test call
NoObjects == [kind |-> "none", items |-> <<>>]

\* the call before was a different one, or there was none
NoRepeat == [same |-> FALSE, flags |-> <<>>, raised |-> None]

\* the call before was this very call and returned this
Before(last) == [same |-> TRUE, flags |-> last.flags, raised |-> last.raised]

(***************************************************************************)
(* adcp_qartod_qaqc/trdi.py : TRDIQAQC.__init__                            *)
(***************************************************************************)
SessionInit ==
    /\ pc = "init"
    /\ data \in Ensembles
    /\ depth_arg \in DepthArgs
    /\ transducer_depth = NoneNum
    /\ u = <<>> /\ v = <<>> /\ w = <<>>
    /\ current_speed = <<>>
    /\ current_direction = <<>>
    /\ bottom_bin = 0
    /\ scan_pos = 0
    /\ bottom_stats = None
    /\ last_good_bin = None
    /\ last_good_counter = None
    /\ call = NoCall
    /\ objects = NoObjects
    /\ repeat = NoRepeat
    /\ ensemble_bottom_stats = <<>>

SetTransducerDepth ==
    /\ pc = "init"
    /\ transducer_depth' =
          IF depth_arg.kind # "None" THEN depth_arg
          ELSE PyNum(data.variable_leader.depth_of_transducer, "int")
    /\ pc' = "read_velocities"
    /\ UNCHANGED <<objects, repeat, ensemble_bottom_stats,
                   data, depth_arg, u, v, w, current_speed,
                   current_direction, bottom_bin, scan_pos, bottom_stats,
                   last_good_bin, last_good_counter, call>>

\* abs(u + 1j*v), exact on the velocities of the model
Hypot(a, b) ==
    CHOOSE r \in Max(Abs(a), Abs(b)) .. (Abs(a) + Abs(b)) :
        r * r = a * a + b * b

\* atan(a/b) in hundredths of a degree for a, b >= 0, not both 0, on the
\* ratios of the model
AtanCenti(a, b) ==
    CASE a = 0 -> 0
      [] b = 0 -> 9000
      [] 4 * a = 3 * b -> 3687
      [] 3 * a = 4 * b -> 5313

\* math.atan2(y, x) * 180 / math.pi in hundredths of a degree
Atan2Centi(y, x) ==
    IF y = 0 /\ x = 0 THEN 0
    ELSE LET base == AtanCenti(Abs(y), Abs(x))
         IN  CASE y >= 0 /\ x >= 0 -> base
               [] y >= 0 /\ x < 0  -> 18000 - base
               [] y < 0 /\ x >= 0  -> -base
               [] y < 0 /\ x < 0   -> -(18000 - base)

ReadVelocities ==
    /\ pc = "read_velocities"
    /\ LET rows == data.velocity
       IN  /\ u' = [i \in 1..Len(rows) |-> rows[i][1]]
           /\ v' = [i \in 1..Len(rows) |-> rows[i][2]]
           /\ w' = [i \in 1..Len(rows) |-> rows[i][3]]
           /\ current_speed' =
                 [i \in 1..Len(rows) |-> Hypot(rows[i][1], rows[i][2])]
           /\ current_direction' =
                 [i \in 1..Len(rows) |-> Atan2Centi(rows[i][1], rows[i][2])]
    /\ pc' = "calc_bottom_stats"
    /\ UNCHANGED <<objects, repeat, ensemble_bottom_stats,
                   data, depth_arg, transducer_depth, bottom_bin, scan_pos,
                   bottom_stats, last_good_bin, last_good_counter, call>>

(***************************************************************************)
(* TRDIQAQC.__calc_bottom_stats                                            *)
(***************************************************************************)
BottomTolerance == 30

\* the beam count without abs(), the operands of the difference swapped
JumpCountDropsOnly(bin_prev, bin_curr, tolerance) ==
    Cardinality({k \in 1..ZipLen(bin_prev, bin_curr) :
                    bin_prev[k] - bin_curr[k] > tolerance})

\* the beam count with the tolerance inclusive
JumpCountInclusive(bin_prev, bin_curr, tolerance) ==
    Cardinality({k \in 1..ZipLen(bin_prev, bin_curr) :
                    Abs(bin_curr[k] - bin_prev[k]) >= tolerance})

\* the beams of a pair of adjacent bins that changed by more than tolerance
JumpCount(bin_prev, bin_curr, tolerance) ==
    Cardinality({k \in 1..ZipLen(bin_prev, bin_curr) :
                    Abs(bin_curr[k] - bin_prev[k]) > tolerance})

\* the pairs zip(intensity, intensity[1:]) yields
PairCount(intensity) == ZipLen(intensity, PyTail(intensity))

\* the scan starting its count at 0
BeginScanAtZero ==
    /\ pc = "calc_bottom_stats"
    /\ bottom_bin' = 0
    /\ scan_pos' = 0
    /\ pc' = "scan"
    /\ UNCHANGED <<objects, repeat, ensemble_bottom_stats,
                   session, depth_arg, call>>

BeginScan ==
    /\ pc = "calc_bottom_stats"
    /\ bottom_bin' = 1
    /\ scan_pos' = 0
    /\ pc' = "scan"
    /\ UNCHANGED <<objects, repeat, ensemble_bottom_stats,
                   session, depth_arg, call>>

ScanAdvance ==
    /\ pc = "scan"
    /\ scan_pos < PairCount(data.echo_intensity)
    /\ JumpCount(data.echo_intensity[scan_pos + 1],
                 data.echo_intensity[scan_pos + 2], BottomTolerance) < 2
    /\ bottom_bin' = bottom_bin + 1
    /\ scan_pos' = scan_pos + 1
    /\ UNCHANGED <<objects, repeat, ensemble_bottom_stats,
                   pc, session, depth_arg, call>>

\* the break starting bottom_bin over
ScanBreakResetting ==
    /\ pc = "scan"
    /\ scan_pos < PairCount(data.echo_intensity)
    /\ ~(JumpCount(data.echo_intensity[scan_pos + 1],
                   data.echo_intensity[scan_pos + 2], BottomTolerance) < 2)
    /\ scan_pos' = scan_pos + 1
    /\ bottom_bin' = 1
    /\ pc' = "derive"
    /\ UNCHANGED <<objects, repeat, ensemble_bottom_stats,
                   session, depth_arg, call>>

ScanBreak ==
    /\ pc = "scan"
    /\ scan_pos < PairCount(data.echo_intensity)
    /\ ~(JumpCount(data.echo_intensity[scan_pos + 1],
                   data.echo_intensity[scan_pos + 2], BottomTolerance) < 2)
    /\ scan_pos' = scan_pos + 1
    /\ pc' = "derive"
    /\ UNCHANGED <<objects, repeat, ensemble_bottom_stats,
                   bottom_bin, session, depth_arg, call>>

ScanEnd ==
    /\ pc = "scan"
    /\ scan_pos = PairCount(data.echo_intensity)
    /\ pc' = "derive"
    /\ UNCHANGED <<objects, repeat, ensemble_bottom_stats,
                   bottom_bin, scan_pos, session, depth_arg, call>>

\* the whole scan loop from pair pos on: the bottom_bin it ends with
RECURSIVE ScanFrom(_, _, _, _)
ScanFrom(intensity, pos, bin, tolerance) ==
    IF pos >= PairCount(intensity) THEN bin
    ELSE IF JumpCount(intensity[pos + 1], intensity[pos + 2], tolerance) < 2
         THEN ScanFrom(intensity, pos + 1, bin + 1, tolerance)
         ELSE bin

\* math.cos(beam_angle * math.pi / 180.0) times CosScale
CosScale == 100000

CosScaled(beam_angle) ==
    CASE beam_angle = 20 -> 93969
      [] beam_angle = 30 -> 86603

\* (bin_1_distance + transducer_depth) / 100, in hundredths: Python 2
\* divides two ints with floor division and a float exactly
Bin1Distance(bin_1_distance, depth) ==
    IF depth.kind = "float" THEN bin_1_distance + depth.val
    ELSE 100 * PyIntDiv(bin_1_distance + depth.val, 100)

\* bottom_bin * depth_cell_length / 100.0 + bin_1_distance, in hundredths
RangeToBottom(bin, depth_cell_length, bin_1_distance) ==
    bin * depth_cell_length + bin_1_distance

SideLobeStart(beam_angle, range_to_bottom) ==
    PyInt(CosScaled(beam_angle) * range_to_bottom, CosScale * 100)

BottomStats(bin, leader, depth) ==
    LET range == RangeToBottom(bin, leader.depth_cell_length,
                               Bin1Distance(leader.bin_1_distance, depth))
        side == SideLobeStart(leader.beam_angle, range)
    IN  [bottom_bin |-> bin,
         range_to_bottom |-> range,
         side_lobe_start |-> side,
         last_good_bin |-> side - 1,
         last_good_counter |-> (side - 1) - 1]

DeriveBottomStats ==
    /\ pc = "derive"
    /\ bottom_stats' = BottomStats(bottom_bin, data.fixed_leader,
                                   transducer_depth)
    /\ last_good_bin' = bottom_stats'.last_good_bin
    /\ last_good_counter' = bottom_stats'.last_good_counter
    /\ pc' = "ready"
    /\ UNCHANGED <<objects, repeat, ensemble_bottom_stats,
                   data, depth_arg, transducer_depth, u, v, w, current_speed,
                   current_direction, bottom_bin, scan_pos, call>>

(***************************************************************************)
(* TRDIQAQC accessors.  call.window holds the 0-based indices of the bins  *)
(* the accessor hands to its test.                                         *)
(***************************************************************************)
\* an accessor that computes the bottom statistics anew, one bin further
ReturnsRecomputing(name, args, window, flags) ==
    /\ pc = "ready"
    /\ call' = [name |-> name, args |-> args, window |-> window,
                flags |-> flags, raised |-> None]
    /\ repeat' = IF call.name = name /\ call.args = args THEN Before(call)
                 ELSE NoRepeat
    /\ bottom_stats' = BottomStats(bottom_stats.bottom_bin + 1,
                                   data.fixed_leader, transducer_depth)
    /\ last_good_bin' = bottom_stats'.last_good_bin
    /\ last_good_counter' = bottom_stats'.last_good_counter
    /\ UNCHANGED <<objects, ensemble_bottom_stats, pc, data, depth_arg,
                   transducer_depth, u, v, w, current_speed,
                   current_direction, bottom_bin, scan_pos>>

Returns(name, args, window, flags) ==
    /\ pc = "ready"
    /\ call' = [name |-> name, args |-> args, window |-> window,
                flags |-> flags, raised |-> None]
    /\ repeat' = IF call.name = name /\ call.args = args THEN Before(call)
                 ELSE NoRepeat
    /\ UNCHANGED <<objects, ensemble_bottom_stats, pc, session, depth_arg, bottom_bin, scan_pos>>

\* the accessor ends in an exception and hands back nothing
Raises(name, args, error) ==
    /\ pc = "ready"
    /\ call' = [name |-> name, args |-> args, window |-> {},
                flags |-> <<>>, raised |-> error]
    /\ repeat' = IF call.name = name /\ call.args = args THEN Before(call)
                 ELSE NoRepeat
    /\ UNCHANGED <<objects, ensemble_bottom_stats, pc, session, depth_arg,
                   bottom_bin, scan_pos>>

\* The accessors of one flag; the flag is held as a sequence of one.
battery_flag ==
    Returns("battery_flag", <<>>, {}, <<battery_flag_test(data)>>)

checksum_flag ==
    Returns("checksum_flag", <<>>, {}, <<checksum_test(data)>>)

bit_flag ==
    Returns("bit_flag", <<>>, {},
            <<bit_test(data.variable_leader.bit_result)>>)

orientation_flags ==
    \E limits \in {<<20, 20>>, <<20, 25>>} :
        Returns("orientation_flags", limits, {},
                <<orientation_test(data.variable_leader.pitch,
                                   data.variable_leader.roll,
                                   limits[1], limits[2])>>)

sound_speed_flags ==
    \E limits \in {<<1400, 1600>>, <<1510, 1600>>} :
        Returns("sound_speed_flags", limits, {},
                <<sound_speed_test(data.variable_leader.speed_of_sound,
                                   limits[1], limits[2])>>)

noise_floor_flag ==
    Returns("noise_floor_flag", <<>>, {}, <<noise_floor_test(data)>>)

\* tests.py defines signal_strength_flag; the name signal_strength_test that
\* trdi.py imports and calls here is bound to nothing.  The failure is kept
\* at the one accessor that uses the name, so that the rest of the session
\* can be followed.
TRDIQAQC_signal_strength_flag ==
    Raises("signal_strength_flag", <<>>, "ImportError")

signal_to_noise_flag ==
    Returns("signal_to_noise_flag", <<>>, {}, <<signal_to_noise_test(data)>>)

stuck_sensor_flag ==
    Returns("stuck_sensor_flag", <<>>, {}, <<stuck_sensor_test(data)>>)

\* imap(itemgetter(k), rows)
ItemGetter(k, rows) == [i \in 1..Len(rows) |-> rows[i][k + 1]]

correlation_magnitude_flags ==
    \E tolerances \in {<<115, 64>>, <<100, 50>>} :
        LET correlation == PySlice(data.correlation, last_good_bin)
        IN  Returns("correlation_magnitude_flags", tolerances,
                    SliceIndices(Len(data.correlation), last_good_bin),
                    correlation_magnitude_test(correlation, tolerances[1],
                                               tolerances[2]))

percent_good_flags ==
    \E limits \in {<<21, 17>>, <<19, 18>>} :
        LET rows == PySlice(data.percent_good, last_good_bin)
            one_bad_percent == ItemGetter(2, rows)
            all_good_percent == ItemGetter(3, rows)
        IN  Returns("percent_good_flags", limits,
                    SliceIndices(Len(data.percent_good), last_good_bin),
                    percent_good_test(one_bad_percent, all_good_percent,
                                      limits[1], limits[2]))

current_speed_flags ==
    \E max_speed \in {150, 4} :
        Returns("current_speed_flags", <<max_speed>>,
                SliceIndices(Len(current_speed), last_good_counter),
                current_speed_test(PySlice(current_speed, last_good_counter),
                                   150))

\* the accessor storing the normalized directions in the session
current_direction_flags_in_place ==
    /\ pc = "ready"
    /\ call' = [name |-> "current_direction_flags", args |-> <<>>,
                window |-> SliceIndices(Len(current_direction),
                                        last_good_counter),
                flags |-> current_direction_test(
                              PySlice(current_direction, last_good_counter)),
                raised |-> None]
    /\ repeat' = IF call.name = "current_direction_flags" /\ call.args = <<>>
                 THEN Before(call) ELSE NoRepeat
    /\ current_direction' =
          [i \in 1..Len(current_direction) |->
              IF i - 1 \in SliceIndices(Len(current_direction),
                                        last_good_counter)
                 /\ current_direction[i] < 0
              THEN current_direction[i] + 36000
              ELSE current_direction[i]]
    /\ UNCHANGED <<objects, ensemble_bottom_stats, pc, data, depth_arg,
                   transducer_depth, u, v, w, current_speed, bottom_bin,
                   scan_pos, bottom_stats, last_good_bin, last_good_counter>>

current_direction_flags ==
    Returns("current_direction_flags", <<>>,
            SliceIndices(Len(current_direction), last_good_counter),
            current_direction_test(
                PySlice(current_direction, last_good_counter)))

horizontal_velocity_flags ==
    \E limits \in {<<150, 150>>, <<2, 150>>} :
        Returns("horizontal_velocity_flags", limits,
                SliceIndices(Len(u), last_good_counter),
                horizontal_velocity_test(PySlice(u, last_good_counter),
                                         PySlice(v, last_good_counter),
                                         limits[1], limits[2]))

vertical_velocity_flags ==
    \E max_w_velocity \in {15, 16} :
        Returns("vertical_velocity_flags", <<max_w_velocity>>,
                SliceIndices(Len(w), last_good_counter),
                vertical_velocity_test(PySlice(w, last_good_counter),
                                       max_w_velocity))

error_velocity_flags ==
    \E limits \in {<<26, 52>>, <<10, 30>>} :
        LET error_velocities ==
                ItemGetter(3, PySlice(data.velocity, last_good_counter))
        IN  Returns("error_velocity_flags", limits,
                    SliceIndices(Len(data.velocity), last_good_counter),
                    error_velocity_test(error_velocities, limits[1],
                                        limits[2]))

echo_intensity_flags ==
    \E tolerance \in {2, 50} :
        LET echo_intensities ==
                PySlice(data.echo_intensity, last_good_counter)
        IN  Returns("echo_intensity_flags", <<tolerance>>,
                    SliceIndices(Len(data.echo_intensity), last_good_counter),
                    echo_intensity_test(echo_intensities, 2))

range_drop_off_flags ==
    \E drop_off_limit \in {60, 30} :
        LET echo_intensities ==
                PySlice(data.echo_intensity, last_good_counter)
        IN  Returns("range_drop_off_flags", <<drop_off_limit>>,
                    SliceIndices(Len(data.echo_intensity), last_good_counter),
                    range_drop_off_test(echo_intensities, drop_off_limit))

current_speed_gradient_flags ==
    \E tolerance \in {6, 200} :
        Returns("current_speed_gradient_flags", <<tolerance>>,
                0 .. (Len(current_speed) - 1),
                current_speed_gradient_test(current_speed, tolerance))

WindowedAccessors ==
    {"correlation_magnitude_flags", "percent_good_flags",
     "current_speed_flags", "current_direction_flags",
     "horizontal_velocity_flags", "vertical_velocity_flags",
     "error_velocity_flags", "echo_intensity_flags", "range_drop_off_flags",
     "current_speed_gradient_flags"}

(***************************************************************************)
(* The tests of tests.py called directly, without a session.               *)
(***************************************************************************)
MaxBeams == 4

MaxPairs == 3

\* a call of a test that has not returned yet
Pending(name, args) ==
    [name |-> name, args |-> args, window |-> {}, flags |-> <<>>,
     raised |-> None]

\* the three bins of the documented correlation example
CorrelationSample ==
    << <<120, 120, 120, 120>>, <<120, 120, 70, 70>>, <<10, 10, 10, 10>> >>

CorrelationInputs ==
    {<<>>, CorrelationSample}
        \cup {<<bin>> : bin \in SeqsUpTo({10, 64, 70, 115, 120}, MaxBeams)}

PercentInputs == SeqsUpTo({8, 9, 10, 11}, MaxPairs)

\* the longest array handed to a test of one array, or of u and v
MaxItems == 3

\* bins whose beams fall by 2, by 1 on one beam, by 1 on two beams
EchoInputs ==
    SeqsUpTo({<<100, 100, 100, 100>>, <<98, 98, 98, 98>>,
              <<99, 98, 98, 98>>, <<96, 96, 97, 97>>}, MaxItems)

\* directions in hundredths of a degree
DirectionInputs ==
    SeqsUpTo({-40000, -1000, 0, 35999, 36000, 36001}, MaxItems)

ErrorVelocityInputs == SeqsUpTo({-3, 2, 3, 5, 6}, MaxItems)

VerticalVelocityInputs == SeqsUpTo({-16, -15, 0, 15, 16}, MaxItems)

HorizontalVelocityInputs == SeqsUpTo({0, 150, -151}, MaxItems)

LibraryCalls ==
    {Pending("correlation_magnitude_test",
             <<ensemble_correlation, tolerances[1], tolerances[2]>>) :
        ensemble_correlation \in CorrelationInputs,
        tolerances \in {<<115, 64>>, <<100, 50>>, <<64, 115>>}}
    \cup
    {Pending("percent_good_test",
             <<one_bad_percent_data, all_good_percent_data,
               limits[1], limits[2]>>) :
        one_bad_percent_data \in PercentInputs,
        all_good_percent_data \in PercentInputs,
        limits \in {<<21, 17>>, <<19, 18>>}}
    \cup
    {Pending("echo_intensity_test", <<echo_intensities, tolerance>>) :
        echo_intensities \in EchoInputs, tolerance \in {2, 1}}
    \cup
    {Pending("current_direction_test", <<directions>>) :
        directions \in DirectionInputs}
    \cup
    {Pending("error_velocity_test",
             <<error_velocities, limits[1], limits[2]>>) :
        error_velocities \in ErrorVelocityInputs,
        limits \in {<<26, 52>>, <<30, 50>>}}
    \cup
    {Pending("vertical_velocity_test", <<ws, max_w_velocity>>) :
        ws \in VerticalVelocityInputs, max_w_velocity \in {15, 10}}
    \cup
    {Pending("horizontal_velocity_test", <<us, vs, 150, 150>>) :
        us \in HorizontalVelocityInputs, vs \in HorizontalVelocityInputs}

(***************************************************************************)
(* adcp_qartod_qaqc/trdiUH.py : TRDIQAQC over a batch of ensembles.        *)
(* data.amp holds one echo intensity profile per ensemble, data.pg3 and    *)
(* data.pg4 the two percent good counters per ensemble.  Bin1Dist and      *)
(* transducer_depth are floats, kept in hundredths.                        *)
(***************************************************************************)
MaxEnsembles == 2

MaxBatchBins == 2

\* a beam value that int() cannot convert (a float nan): int() raises
\* ValueError on it
NaN == -1

BinNaN ==
    [echo_intensity |-> <<NaN, 100, 100, 100>>,
     velocity       |-> <<0, 0, 0, 0>>,
     correlation    |-> <<0, 0, 0, 0>>,
     percent_good   |-> <<0, 0, 0, 0>>]

BatchBinSet == {BinFlat, BinJump, BinDrop, BinNaN}

\* the profiles of one ensemble: every short one, and one whose unreadable
\* bin lies beyond the jump
BatchProfiles ==
    SeqsUpTo(BatchBinSet, MaxBatchBins) \cup {<<BinFlat, BinJump, BinNaN>>}

Multiread(profiles, NCells) ==
    [amp |-> [e \in 1..Len(profiles) |->
                 [i \in 1..Len(profiles[e]) |-> profiles[e][i].echo_intensity]],
     pg3 |-> [e \in 1..Len(profiles) |->
                 [i \in 1..Len(profiles[e]) |-> profiles[e][i].percent_good[3]]],
     pg4 |-> [e \in 1..Len(profiles) |->
                 [i \in 1..Len(profiles[e]) |-> profiles[e][i].percent_good[4]]],
     NCells |-> NCells,
     Bin1Dist |-> 150,
     sysconfig |-> [angle |-> 20]]

Batches ==
    {Multiread(profiles, NCells) :
        profiles \in SeqsUpTo(BatchProfiles, MaxEnsembles),
        NCells \in {25, 100}}

BatchInit ==
    /\ pc = "batch_init"
    /\ data \in Batches
    /\ depth_arg = PyNum(104, "float")
    /\ transducer_depth = NoneNum
    /\ u = <<>> /\ v = <<>> /\ w = <<>>
    /\ current_speed = <<>>
    /\ current_direction = <<>>
    /\ bottom_bin = 0
    /\ scan_pos = 0
    /\ bottom_stats = None
    /\ last_good_bin = None
    /\ last_good_counter = None
    /\ call = NoCall
    /\ objects = NoObjects
    /\ repeat = NoRepeat
    /\ ensemble_bottom_stats = <<>>

\* __init__ up to the call of set_ensemble_bottom_stats
BatchReadConfiguration ==
    /\ pc = "batch_init"
    /\ transducer_depth' = depth_arg
    /\ pc' = "set_ensemble_bottom_stats"
    /\ UNCHANGED <<data, depth_arg, u, v, w, current_speed, current_direction,
                   bottom_bin, scan_pos, bottom_stats, last_good_bin,
                   last_good_counter, call, objects, repeat,
                   ensemble_bottom_stats>>

\* int(beam_prev) or int(beam_curr) raises on a beam of the pair
PairRaises(bin_prev, bin_curr) ==
    \E k \in 1..ZipLen(bin_prev, bin_curr) :
        bin_prev[k] = NaN \/ bin_curr[k] = NaN

\* the beams of a pair whose intensity rose by more than tolerance
BatchJumpCount(bin_prev, bin_curr, tolerance) ==
    Cardinality({k \in 1..ZipLen(bin_prev, bin_curr) :
                    bin_curr[k] - bin_prev[k] > tolerance})

\* the scan of one ensemble from the pair after pos reads a beam that
\* int() cannot convert before it ends or breaks
RECURSIVE BatchScanRaises(_, _, _)
BatchScanRaises(ensemble, pos, tolerance) ==
    IF pos >= PairCount(ensemble) THEN FALSE
    ELSE IF PairRaises(ensemble[pos + 1], ensemble[pos + 2]) THEN TRUE
    ELSE IF BatchJumpCount(ensemble[pos + 1], ensemble[pos + 2],
                           tolerance) < 2
         THEN BatchScanRaises(ensemble, pos + 1, tolerance)
         ELSE FALSE

\* bottom_bin of one ensemble whose scan does not raise
RECURSIVE BatchScanFrom(_, _, _, _)
BatchScanFrom(ensemble, pos, bin, tolerance) ==
    IF pos >= PairCount(ensemble) THEN bin
    ELSE IF BatchJumpCount(ensemble[pos + 1], ensemble[pos + 2],
                           tolerance) < 2
         THEN BatchScanFrom(ensemble, pos + 1, bin + 1, tolerance)
         ELSE bin

\* bottom_bin * (NCells / 100) + bin1depth, in hundredths; NCells / 100
\* divides two ints
BatchBottomStats(bin) ==
    LET range == 100 * bin * PyIntDiv(data.NCells, 100)
                 + (data.Bin1Dist + transducer_depth.val)
        side == SideLobeStart(data.sysconfig.angle, range)
    IN  [bottom_bin |-> bin,
         range_to_bottom |-> range,
         side_lobe_start |-> side,
         last_good_bin |-> side - 1,
         last_good_counter |-> (side - 1) - 1]

\* one pass of the loop over self.data.amp
EnsembleBottomStats ==
    /\ pc = "set_ensemble_bottom_stats"
    /\ Len(ensemble_bottom_stats) < Len(data.amp)
    /\ LET ensemble == data.amp[Len(ensemble_bottom_stats) + 1]
       IN  IF BatchScanRaises(ensemble, 0, BottomTolerance)
           THEN /\ pc' = "batch_raised"
                /\ call' = [name |-> "batch.__init__", args |-> <<>>,
                            window |-> {}, flags |-> <<>>,
                            raised |-> "ValueError"]
                /\ UNCHANGED ensemble_bottom_stats
           ELSE /\ ensemble_bottom_stats' =
                      Append(ensemble_bottom_stats,
                             BatchBottomStats(
                                 BatchScanFrom(ensemble, 0, 1,
                                               BottomTolerance)))
                /\ UNCHANGED <<pc, call>>
    /\ UNCHANGED <<data, depth_arg, transducer_depth, u, v, w, current_speed,
                   current_direction, bottom_bin, scan_pos, bottom_stats,
                   last_good_bin, last_good_counter, objects, repeat>>

\* the loop has gone through every ensemble
BatchConstructed ==
    /\ pc = "set_ensemble_bottom_stats"
    /\ Len(ensemble_bottom_stats) = Len(data.amp)
    /\ pc' = "batch_ready"
    /\ UNCHANGED <<data, depth_arg, transducer_depth, u, v, w, current_speed,
                   current_direction, bottom_bin, scan_pos, bottom_stats,
                   last_good_bin, last_good_counter, call, objects, repeat,
                   ensemble_bottom_stats>>

\* an accessor of the batch session returns one flag list per ensemble, or
\* ends in the exception of the first ensemble that fails
BatchReturns(name, args, flags, error) ==
    /\ pc = "batch_ready"
    /\ call' = [name |-> name, args |-> args, window |-> {},
                flags |-> IF error = None THEN flags ELSE <<>>,
                raised |-> error]
    /\ repeat' = IF call.name = name /\ call.args = args THEN Before(call)
                 ELSE NoRepeat
    /\ UNCHANGED <<pc, data, depth_arg, transducer_depth, u, v, w,
                   current_speed, current_direction, bottom_bin, scan_pos,
                   bottom_stats, last_good_bin, last_good_counter, objects,
                   ensemble_bottom_stats>>

\* percent_good_test takes four arguments and is handed five here: the
\* first pass of the loop raises TypeError
Batch_percent_good_flags ==
    \E limits \in {<<21, 17>>} :
        BatchReturns("batch.percent_good_flags", limits, <<>>,
                     IF ZipLen(data.pg3, ensemble_bottom_stats) = 0
                     THEN None ELSE "TypeError")

\* echo_intensity_test(ensemble, tolerance) converts the beams of every pair
EchoRaises(ensemble) ==
    \E i \in 1..PairCount(ensemble) :
        PairRaises(ensemble[i], ensemble[i + 1])

Batch_echo_intensity_flags ==
    \E tolerance \in {2} :
        BatchReturns("batch.echo_intensity_flags", <<tolerance>>,
                     [e \in 1..Len(data.amp) |->
                         echo_intensity_test(data.amp[e], tolerance)],
                     IF \E e \in 1..Len(data.amp) : EchoRaises(data.amp[e])
                     THEN "ValueError" ELSE None)

\* percent_good_flags and error_velocity_flags hand their tests imap objects
\* in place of lists: the calls made on such objects
ImapCalls ==
    {Pending("percent_good_test",
             <<one_bad_percent_data, all_good_percent_data, 21, 17>>) :
        one_bad_percent_data \in SeqsUpTo({8, 11}, MaxPairs),
        all_good_percent_data \in SeqsUpTo({8, 11}, MaxPairs)}
    \cup
    {pending \in LibraryCalls : pending.name = "error_velocity_test"}

LibraryInit ==
    /\ pc = "library"
    /\ data = None
    /\ depth_arg = NoneNum
    /\ transducer_depth = NoneNum
    /\ u = <<>> /\ v = <<>> /\ w = <<>>
    /\ current_speed = <<>>
    /\ current_direction = <<>>
    /\ bottom_bin = 0
    /\ scan_pos = 0
    /\ bottom_stats = None
    /\ last_good_bin = None
    /\ last_good_counter = None
    /\ \/ call \in LibraryCalls /\ objects = [kind |-> "list", items |-> call.args]
       \/ call \in ImapCalls /\ objects = [kind |-> "imap", items |-> call.args]
    /\ repeat = NoRepeat
    /\ ensemble_bottom_stats = <<>>

Init == SessionInit \/ LibraryInit \/ BatchInit

\* a test that popped its items off whatever it was handed
RestPopped(kind, items, taken) == SubSeq(items, taken + 1, Len(items))

\* a list is left as it was by "for ... in"; an imap object has handed out
\* its first `taken` items for good
Rest(kind, items, taken) ==
    IF kind = "imap" THEN SubSeq(items, taken + 1, Len(items)) ELSE items

\* "for x in xs" draws every item of xs
Iterated(xs) == Rest(objects.kind, xs, Len(xs))

\* izip(xs, ys) draws from xs first and stops at the first that is exhausted
IzippedFirst(xs, ys) == Rest(objects.kind, xs, Min(Len(xs), Len(ys) + 1))

IzippedSecond(xs, ys) == Rest(objects.kind, ys, Min(Len(xs), Len(ys)))

\* one invocation of a test on the argument objects; the same objects can be
\* handed to the test once more
LibraryReturns(name, flags, after) ==
    /\ pc \in {"library", "returned"}
    /\ call.name = name
    /\ call' = [call EXCEPT !.flags = flags]
    /\ objects' = [objects EXCEPT !.items = after]
    /\ repeat' = IF pc = "returned" THEN Before(call) ELSE NoRepeat
    /\ pc' = IF pc = "library" THEN "returned" ELSE "repeated"
    /\ UNCHANGED <<ensemble_bottom_stats, session, depth_arg, bottom_bin, scan_pos>>

CallCorrelationMagnitudeTest ==
    LET items == objects.items
    IN  LibraryReturns("correlation_magnitude_test",
                       correlation_magnitude_test(items[1], items[2],
                                                  items[3]),
                       [items EXCEPT ![1] = Iterated(items[1])])

CallPercentGoodTest ==
    LET items == objects.items
    IN  LibraryReturns("percent_good_test",
                       percent_good_test(items[1], items[2], items[3],
                                         items[4]),
                       [items EXCEPT ![1] = IzippedFirst(items[1], items[2]),
                                     ![2] = IzippedSecond(items[1], items[2])])

\* zip(echo_intensities, echo_intensities[1:]) reads a list
CallEchoIntensityTest ==
    LET items == objects.items
    IN  LibraryReturns("echo_intensity_test",
                       echo_intensity_test(items[1], items[2]), items)

\* "direction += 360" rebinds the loop variable; the list keeps its items
CallCurrentDirectionTest ==
    LET items == objects.items
    IN  LibraryReturns("current_direction_test",
                       current_direction_test(items[1]),
                       [items EXCEPT ![1] = Iterated(items[1])])

CallErrorVelocityTest ==
    LET items == objects.items
    IN  LibraryReturns("error_velocity_test",
                       error_velocity_test(items[1], items[2], items[3]),
                       [items EXCEPT ![1] = Iterated(items[1])])

CallVerticalVelocityTest ==
    LET items == objects.items
    IN  LibraryReturns("vertical_velocity_test",
                       vertical_velocity_test(items[1], items[2]),
                       [items EXCEPT ![1] = Iterated(items[1])])

CallHorizontalVelocityTest ==
    LET items == objects.items
    IN  LibraryReturns("horizontal_velocity_test",
                       horizontal_velocity_test(items[1], items[2],
                                                items[3], items[4]),
                       [items EXCEPT ![1] = IzippedFirst(items[1], items[2]),
                                     ![2] = IzippedSecond(items[1], items[2])])

Next ==
    \/ SetTransducerDepth
    \/ ReadVelocities
    \/ BeginScan
    \/ ScanAdvance
    \/ ScanBreak
    \/ ScanEnd
    \/ DeriveBottomStats
    \/ battery_flag
    \/ checksum_flag
    \/ bit_flag
    \/ orientation_flags
    \/ sound_speed_flags
    \/ noise_floor_flag
    \/ TRDIQAQC_signal_strength_flag
    \/ signal_to_noise_flag
    \/ stuck_sensor_flag
    \/ correlation_magnitude_flags
    \/ percent_good_flags
    \/ current_speed_flags
    \/ current_direction_flags
    \/ horizontal_velocity_flags
    \/ vertical_velocity_flags
    \/ error_velocity_flags
    \/ echo_intensity_flags
    \/ range_drop_off_flags
    \/ current_speed_gradient_flags
    \/ CallCorrelationMagnitudeTest
    \/ CallPercentGoodTest
    \/ CallEchoIntensityTest
    \/ CallCurrentDirectionTest
    \/ CallErrorVelocityTest
    \/ CallVerticalVelocityTest
    \/ CallHorizontalVelocityTest
    \/ BatchReadConfiguration
    \/ EnsembleBottomStats
    \/ BatchConstructed
    \/ Batch_percent_good_flags
    \/ Batch_echo_intensity_flags

Spec == Init /\ [][Next]_vars

(***************************************************************************)
(* Properties                                                              *)
(***************************************************************************)
Constructed == pc = "ready"

ScanDone == pc \in {"derive", "ready"}

BinCount == Len(data.echo_intensity)

\* the beams that differ by more than limit between bins i and i + 1
ChangedBeams(i, limit) ==
    LET prev == data.echo_intensity[i]
        curr == data.echo_intensity[i + 1]
    IN  Cardinality({k \in DOMAIN prev :
                        curr[k] - prev[k] > limit \/ prev[k] - curr[k] > limit})

\* bins i and i + 1 show a jump: two or more beams changed by more than 30
HasJump(i) == ChangedBeams(i, 30) >= 2

\* C1: after construction 0 <= last_good_counter <= number of bins
C1_LastGoodCounterInRange ==
    Constructed =>
        /\ 0 <= last_good_counter
        /\ last_good_counter <= BinCount

\* C2: every per-bin accessor hands its test only bins with index in
\* [0, last_good_counter)
C2_WindowBelowCounter ==
    (Constructed /\ call.name \in WindowedAccessors) =>
        \A i \in call.window : 0 <= i /\ i < last_good_counter

\* the bins of two ensembles with index < k agree
AgreeBelow(a, b, k) ==
    \A i \in 1..k :
        /\ (i <= Len(a.velocity)) <=> (i <= Len(b.velocity))
        /\ i <= Len(a.velocity) =>
              /\ a.velocity[i] = b.velocity[i]
              /\ a.echo_intensity[i] = b.echo_intensity[i]
              /\ a.correlation[i] = b.correlation[i]
              /\ a.percent_good[i] = b.percent_good[i]

\* what current_speed_flags returns on a session over ensemble e whose
\* last_good_counter is counter
SpeedFlagsOf(e, counter) ==
    current_speed_test(
        PySlice([i \in 1..Len(e.velocity) |->
                    Hypot(e.velocity[i][1], e.velocity[i][2])], counter),
        150)

\* C3: two ensembles with the same bottom statistics that agree on every
\* bin below last_good_counter get the same current_speed_flags
C3_SpeedFlagsIgnoreTail ==
    (Constructed /\ call.name = "current_speed_flags") =>
        \A other \in Ensembles :
            (/\ BottomStats(ScanFrom(other.echo_intensity, 0, 1,
                                     BottomTolerance),
                            other.fixed_leader, transducer_depth)
                    = bottom_stats
             /\ AgreeBelow(other, data, last_good_counter))
            => SpeedFlagsOf(other, last_good_counter) = call.flags

\* the echo intensity is flat over bins 1..k
FlatThrough(k) ==
    \A i \in 1..k : data.echo_intensity[i] = data.echo_intensity[1]

\* C4 as stated: flat through bin k and at least 2 beams changing by at
\* least 30 between bins k and k+1 give bottom_bin = k
C4_JumpOfAtLeastTolerance ==
    ScanDone =>
        \A k \in 1..(BinCount - 1) :
            (FlatThrough(k) /\ ChangedBeams(k, 29) >= 2) => bottom_bin = k

\* C4 amended: flat through bin k and at least 2 beams changing by more
\* than 30 between bins k and k+1 give bottom_bin = k
C4_JumpBeyondTolerance ==
    ScanDone =>
        \A k \in 1..(BinCount - 1) :
            (FlatThrough(k) /\ ChangedBeams(k, 30) >= 2) => bottom_bin = k

C4_Witness ==
    /\ Constructed
    /\ BinCount = 25
    /\ FlatThrough(20)
    /\ HasJump(20)
    /\ bottom_stats.bottom_bin = 20

\* the number of leading bin pairs without a jump
QuietPairs ==
    CHOOSE m \in 0..PairCount(data.echo_intensity) :
        /\ \A j \in 1..m : ~HasJump(j)
        /\ m = PairCount(data.echo_intensity) \/ HasJump(m + 1)

\* C5: the scan walks the pairs in order from bin 1, adds one to bottom_bin
\* for every pair without a jump and stops at the first pair with one, so
\* bottom_bin ends as 1 plus the number of leading pairs without a jump
C5_ScanCountsQuietPairs ==
    /\ pc = "scan" =>
          /\ scan_pos <= QuietPairs
          /\ bottom_bin = 1 + scan_pos
    /\ ScanDone =>
          /\ bottom_bin = 1 + QuietPairs
          /\ scan_pos = Min(QuietPairs + 1, PairCount(data.echo_intensity))

C5_Witness ==
    /\ Constructed
    /\ BinCount = 3
    /\ ~HasJump(1)
    /\ HasJump(2)
    /\ bottom_stats.bottom_bin = 2

\* C6: without any jump the scan ends with bottom_bin = number of bins;
\* with fewer than 2 bins (0 or 1) bottom_bin = 1
C6_NoJumpAllBins ==
    ScanDone =>
        /\ (BinCount >= 2 /\ \A j \in 1..(BinCount - 1) : ~HasJump(j))
              => bottom_bin = BinCount
        /\ BinCount < 2 => bottom_bin = 1

C6_Witness ==
    /\ Constructed
    /\ BinCount = 3
    /\ \A j \in 1..2 : ~HasJump(j)
    /\ data.echo_intensity[2] # data.echo_intensity[1]
    /\ bottom_stats.bottom_bin = 3

\* C7: with last_good_counter <= 0 every windowed accessor returns an empty
\* flag sequence and raises no error
C7_EmptyWhenNoUsableBins ==
    (Constructed /\ call.name \in WindowedAccessors /\ last_good_counter <= 0)
        => (call.flags = <<>> /\ call.raised = None)

\* C8: range_to_bottom = bottom_bin * depth_cell_length_m
\* + (bin1_distance_raw + transducer_depth)/100, side_lobe_start =
\* floor(cos(beam_angle) * range_to_bottom), last_good_bin =
\* side_lobe_start - 1 and last_good_counter = last_good_bin - 1
C8_BottomStatsFormulas ==
    Constructed =>
        LET leader == data.fixed_leader
            range == bottom_stats.bottom_bin * leader.depth_cell_length
                        + (leader.bin_1_distance + transducer_depth.val)
            side == (CosScaled(leader.beam_angle) * range)
                        \div (CosScale * 100)
        IN  /\ bottom_stats.range_to_bottom = range
            /\ bottom_stats.side_lobe_start = side
            /\ bottom_stats.last_good_bin = side - 1
            /\ bottom_stats.last_good_counter = side - 2
            /\ last_good_bin = side - 1
            /\ last_good_counter = side - 2

\* C9: correlation_magnitude_test flags a bin good when every beam is >=
\* good_tolerance, otherwise suspect when at least 3 beams are >=
\* suspect_tolerance, otherwise bad
C9_CorrelationFlags ==
    (/\ pc = "returned"
     /\ call.name = "correlation_magnitude_test"
     /\ call.args[2] >= call.args[3]) =>
        /\ Len(call.flags) = Len(call.args[1])
        /\ \A i \in 1..Len(call.args[1]) :
              LET bin == call.args[1][i]
              IN  call.flags[i] =
                    IF \A k \in DOMAIN bin : bin[k] >= call.args[2]
                    THEN ADCP_FLAGS.good
                    ELSE IF Cardinality({k \in DOMAIN bin :
                                            bin[k] >= call.args[3]}) >= 3
                    THEN ADCP_FLAGS.suspect
                    ELSE ADCP_FLAGS.bad

C9_Witness ==
    /\ pc = "returned"
    /\ call.name = "correlation_magnitude_test"
    /\ call.args = <<CorrelationSample, 115, 64>>
    /\ call.flags = <<ADCP_FLAGS.good, ADCP_FLAGS.suspect, ADCP_FLAGS.bad>>

\* the flag the percent good rule gives a sum
PercentRule(sum, percent_good, percent_bad) ==
    IF sum >= percent_good THEN ADCP_FLAGS.good
    ELSE IF sum > percent_bad THEN ADCP_FLAGS.suspect
    ELSE ADCP_FLAGS.bad

FirstReturn(name) == pc = "returned" /\ call.name = name

\* beams of bin i that fall from the bin before by less than the tolerance
WeakDrops(bins, i, tolerance) ==
    Cardinality({k \in DOMAIN bins[i - 1] \cap DOMAIN bins[i] :
                    bins[i - 1][k] - bins[i][k] < tolerance})

\* C11: echo_intensity_test returns good for the first bin whatever the
\* input, and for each later bin the flag of the number of beams with
\* previous - current < tolerance: none good, one suspect, two or more bad
C11_EchoIntensityFlags ==
    FirstReturn("echo_intensity_test") =>
        /\ Len(call.flags) = Max(Len(call.args[1]), 1)
        /\ call.flags[1] = ADCP_FLAGS.good
        /\ \A i \in 2..Len(call.flags) :
              LET n == WeakDrops(call.args[1], i, call.args[2])
              IN  call.flags[i] = IF n = 0 THEN ADCP_FLAGS.good
                                  ELSE IF n = 1 THEN ADCP_FLAGS.suspect
                                  ELSE ADCP_FLAGS.bad

C11_Witness ==
    /\ FirstReturn("echo_intensity_test")
    /\ call.args = << << <<100, 100, 100, 100>>, <<99, 98, 98, 98>>,
                         <<96, 96, 97, 97>> >>, 2 >>
    /\ call.flags = <<ADCP_FLAGS.good, ADCP_FLAGS.suspect, ADCP_FLAGS.bad>>

\* a negative direction with 360 degrees added once
Normalized(direction) ==
    IF direction < 0 THEN direction + 36000 ELSE direction

ErrorRule(value, suspect_limit, bad_limit) ==
    IF 10 * value >= bad_limit THEN ADCP_FLAGS.bad
    ELSE IF 10 * value >= suspect_limit THEN ADCP_FLAGS.suspect
    ELSE ADCP_FLAGS.good

C14_VerticalVelocityFlags ==
    FirstReturn("vertical_velocity_test") =>
        /\ Len(call.flags) = Len(call.args[1])
        /\ \A i \in DOMAIN call.flags :
              call.flags[i] =
                  IF call.args[1][i] <= call.args[2]
                     /\ -call.args[1][i] <= call.args[2]
                  THEN ADCP_FLAGS.good ELSE ADCP_FLAGS.bad

C14_Witness ==
    /\ FirstReturn("vertical_velocity_test")
    /\ call.args = << <<16, -15, 15>>, 15 >>
    /\ call.flags = <<ADCP_FLAGS.bad, ADCP_FLAGS.good, ADCP_FLAGS.good>>

(***************************************************************************)
(* The accessors against their tests.                                      *)
(***************************************************************************)
Called(name) == Constructed /\ call.name = name

\* C15: through the session battery_flag, noise_floor_flag,
\* signal_strength_flag, signal_to_noise_flag and stuck_sensor_flag return
\* no_test and checksum_flag returns good, whatever the ensemble
C15_ConstantFlags ==
    /\ \A name \in {"battery_flag", "noise_floor_flag", "signal_strength_flag",
                     "signal_to_noise_flag", "stuck_sensor_flag"} :
          Called(name) =>
              call.raised = None /\ call.flags = <<ADCP_FLAGS.no_test>>
    /\ Called("checksum_flag") =>
          call.raised = None /\ call.flags = <<ADCP_FLAGS.good>>

\* the bins an accessor slicing with [:last_good_counter] hands to its test
Window(seq) == PySlice(seq, last_good_counter)

\* C16: an accessor with a threshold argument returns what its test returns
\* on the accessor's window with the thresholds the caller passed
C16_ThresholdsForwarded ==
    /\ Called("current_speed_flags") =>
          call.flags = current_speed_test(Window(current_speed), call.args[1])
    /\ Called("echo_intensity_flags") =>
          call.flags = echo_intensity_test(Window(data.echo_intensity),
                                           call.args[1])
    /\ Called("range_drop_off_flags") =>
          call.flags = range_drop_off_test(Window(data.echo_intensity),
                                           call.args[1])
    /\ Called("current_speed_gradient_flags") =>
          call.flags = current_speed_gradient_test(current_speed,
                                                   call.args[1])
    /\ Called("vertical_velocity_flags") =>
          call.flags = vertical_velocity_test(Window(w), call.args[1])
    /\ Called("horizontal_velocity_flags") =>
          call.flags = horizontal_velocity_test(Window(u), Window(v),
                                                call.args[1], call.args[2])
    /\ Called("error_velocity_flags") =>
          call.flags = error_velocity_test(
                           ItemGetter(3, Window(data.velocity)),
                           call.args[1], call.args[2])
    /\ Called("orientation_flags") =>
          call.flags = <<orientation_test(data.variable_leader.pitch,
                                          data.variable_leader.roll,
                                          call.args[1], call.args[2])>>
    /\ Called("sound_speed_flags") =>
          call.flags = <<sound_speed_test(data.variable_leader.speed_of_sound,
                                          call.args[1], call.args[2])>>

\* C17: the correlation magnitude test given good_tolerance below
\* suspect_tolerance ends in an error and returns no flags
C17_InconsistentThresholdsRejected ==
    (FirstReturn("correlation_magnitude_test")
        /\ call.args[2] < call.args[3]) =>
            call.raised # None /\ call.flags = <<>>

\* C18: percent_good_test and horizontal_velocity_test given two arrays of
\* different lengths end in an error and return no flags
C18_MismatchedLengthsRejected ==
    \A name \in {"percent_good_test", "horizontal_velocity_test"} :
        (FirstReturn(name) /\ Len(call.args[1]) # Len(call.args[2])) =>
            call.raised # None /\ call.flags = <<>>

(***************************************************************************)
(* The same call made twice in succession.                                 *)
(***************************************************************************)
SameResult == call.flags = repeat.flags /\ call.raised = repeat.raised

BatchEnded == pc \in {"batch_raised", "batch_ready"}

\* the ensembles whose own bottom scan runs through without an exception
ScanSurvivors ==
    {e \in 1..Len(data.amp) : ~BatchScanRaises(data.amp[e], 0, BottomTolerance)}

\* the ensembles whose own echo intensity test runs through
EchoSurvivors == {e \in 1..Len(data.amp) : ~EchoRaises(data.amp[e])}

\* C20: once batch processing has ended, every ensemble whose own
\* processing does not fail has its bottom statistics, and an accessor hands
\* back the flags of every ensemble whose own test does not fail
C20_BatchSurvivesFailure ==
    /\ BatchEnded =>
          Len(ensemble_bottom_stats) >= Cardinality(ScanSurvivors)
    /\ (pc = "batch_ready" /\ call.name = "batch.echo_intensity_flags") =>
          Len(call.flags) >= Cardinality(EchoSurvivors)

(***************************************************************************)
(* The session step by step.                                               *)
(***************************************************************************)
\* C21: bottom_bin never decreases: the scan starts it at 1, a step that
\* stays in the scan has passed a pair without a jump and adds exactly 1,
\* and from the step that leaves the scan on (a jump, or no pair left) it
\* is never changed again
C21_BottomBinMonotone ==
    [][/\ bottom_bin' >= bottom_bin
       /\ pc = "calc_bottom_stats" => bottom_bin' = 1
       /\ (pc = "scan" /\ pc' = "scan") =>
              /\ ~HasJump(scan_pos + 1)
              /\ bottom_bin' = bottom_bin + 1
       /\ (pc = "scan" /\ pc' # "scan") => bottom_bin' = bottom_bin
       /\ ScanDone => bottom_bin' = bottom_bin]_vars

C21_Witness ==
    /\ pc = "derive"
    /\ BinCount = 3
    /\ scan_pos = 2
    /\ HasJump(2)
    /\ bottom_bin = 2

\* C22: the bottom statistics are written by one step only, the last of the
\* construction, which is taken once and before any accessor has run; a
\* windowed accessor runs on a constructed session only and no step after
\* construction writes them again
C22_BottomStatsOnce ==
    [][/\ pc # "derive" =>
              UNCHANGED <<bottom_stats, last_good_bin, last_good_counter>>
       /\ pc = "derive" =>
              /\ pc' = "ready"
              /\ call = NoCall /\ call' = NoCall
       /\ pc' = "derive" => pc = "scan"
       /\ pc = "ready" => pc' = "ready"
       /\ call'.name \in WindowedAccessors => pc = "ready"]_vars

C22_Witness ==
    /\ Constructed
    /\ call.name = "current_speed_flags"
    /\ repeat.same
    /\ bottom_stats.bottom_bin = 2
    /\ last_good_counter = bottom_stats.last_good_counter

\* C23: a step of a constructed session, that is an accessor call, leaves
\* data, u, v, w, current_speed, current_direction, bottom_stats,
\* last_good_bin and last_good_counter as construction left them
C23_AccessorsKeepSession ==
    [][pc = "ready" =>
          UNCHANGED <<data, transducer_depth, u, v, w, current_speed,
                      current_direction, bottom_stats, last_good_bin,
                      last_good_counter>>]_vars

C23_Witness ==
    /\ Constructed
    /\ call.name = "current_direction_flags"
    /\ call.flags # <<>>
    /\ \E i \in DOMAIN call.flags : current_direction[i] < 0

(***************************************************************************)
(* Shape and range of the outputs.                                         *)
(***************************************************************************)
\* the tests of one array per bin that are called directly
VectorTests ==
    {"correlation_magnitude_test", "echo_intensity_test",
     "current_direction_test", "error_velocity_test",
     "vertical_velocity_test"}

\* C24: a vector test returns exactly one flag per bin of its input, the
\* empty input included, and so does every windowed accessor for the bins
\* of its window; the two differential tests are no exception
C24_OneFlagPerBin ==
    /\ \A name \in VectorTests :
          FirstReturn(name) => Len(call.flags) = Len(call.args[1])
    /\ \A name \in {"percent_good_test", "horizontal_velocity_test"} :
          (FirstReturn(name) /\ Len(call.args[1]) = Len(call.args[2])) =>
              Len(call.flags) = Len(call.args[1])
    /\ \A name \in WindowedAccessors :
          Called(name) => Len(call.flags) = Cardinality(call.window)

\* C25: current_direction_test flags every negative direction good and
\* every direction above 360 bad; the directions of a session lie in
\* [-180, 180] and current_direction_flags never returns bad
C25_DirectionNeverBadInSession ==
    /\ FirstReturn("current_direction_test") =>
          \A i \in DOMAIN call.flags :
              /\ call.args[1][i] < 0 => call.flags[i] = ADCP_FLAGS.good
              /\ call.args[1][i] > 36000 => call.flags[i] = ADCP_FLAGS.bad
    /\ Constructed =>
          \A i \in DOMAIN current_direction :
              -18000 <= current_direction[i] /\ current_direction[i] <= 18000
    /\ Called("current_direction_flags") =>
          \A i \in DOMAIN call.flags : call.flags[i] = ADCP_FLAGS.good

C25_Witness ==
    /\ FirstReturn("current_direction_test")
    /\ call.args = << <<-40000, -1000, 36001>> >>
    /\ call.flags = <<ADCP_FLAGS.good, ADCP_FLAGS.good, ADCP_FLAGS.bad>>

\* C26: the batch scan of a batch of one ensemble ends with the bottom_bin
\* that the single-ensemble scan ends with on the same echo intensities
\* and the same tolerance
C26_BatchScanAgrees ==
    (pc = "batch_ready" /\ Len(data.amp) = 1) =>
        ensemble_bottom_stats[1].bottom_bin
            = ScanFrom(data.amp[1], 0, 1, BottomTolerance)

====
